---- MODULE Spec2Model ----
(***************************************************************************)
(* Relaxation kernels of pyamg (pyamg/relaxation/relaxation.py): the       *)
(* argument normalisation make_system and the smoothers sor, gauss_seidel, *)
(* jacobi, polynomial, gauss_seidel_indexed, kaczmarz_jacobi,              *)
(* kaczmarz_richardson and kaczmarz_gauss_seidel, as calls made by one     *)
(* caller on one linear system (A, x, b).                                  *)
(*                                                                         *)
(* Scalars are exact rationals <<n, d>> in lowest terms with d > 0: the    *)
(* real scalars of a float64 system without rounding.  NaN == <<0, 0>>     *)
(* stands for every non-finite value (inf, -inf, nan), which arithmetic    *)
(* propagates.  OVF == <<1, 0>> is a value beyond MaxMag: a loop stops at   *)
(* an iterate that holds one, and a call that ends with one is not         *)
(* followed.  Python indices are kept 0-based; a Python sequence s is a    *)
(* TLA+ sequence read as s[i + 1].                                         *)
(***************************************************************************)
EXTENDS Integers, Sequences, FiniteSets, TLC

----------------------------------------------------------------------------
(* Bounds of the exploration. *)

\* largest iteration count passed to a kernel
MaxIter == 3

\* largest numerator or denominator the exact arithmetic follows
MaxMag == 30000

----------------------------------------------------------------------------
(* Scalars. *)

NaN == <<0, 0>>

\* a result beyond MaxMag: the exploration does not follow it
OVF == <<1, 0>>

IsNum(v) == v[2] > 0

Abs(n) == IF n < 0 THEN -n ELSE n

RECURSIVE GCD(_, _)
GCD(a, b) == IF b = 0 THEN a ELSE GCD(b, a % b)

Norm(n, d) ==
    LET g == GCD(Abs(n), d)
        nn == n \div g
        dd == d \div g
    IN  IF Abs(nn) > MaxMag \/ dd > MaxMag THEN OVF ELSE <<nn, dd>>

Rat(n) == <<n, 1>>

Q(n, d) == Norm(n, d)

Zero == Rat(0)

One == Rat(1)

\* a non-finite operand makes the result non-finite
Bad(v, w) == IF v = OVF \/ w = OVF THEN OVF ELSE NaN

Neg(v) == IF IsNum(v) THEN <<-v[1], v[2]>> ELSE v

Add(v, w) ==
    IF IsNum(v) /\ IsNum(w)
    THEN Norm(v[1] * w[2] + w[1] * v[2], v[2] * w[2])
    ELSE Bad(v, w)

Sub(v, w) == Add(v, Neg(w))

Mul(v, w) ==
    IF IsNum(v) /\ IsNum(w)
    THEN Norm(v[1] * w[1], v[2] * w[2])
    ELSE Bad(v, w)

\* division by zero yields a non-finite value, as in floating point
Div(v, w) ==
    IF IsNum(v) /\ IsNum(w)
    THEN IF w[1] = 0 THEN NaN
         ELSE IF w[1] < 0 THEN Norm(-(v[1] * w[2]), -(v[2] * w[1]))
         ELSE Norm(v[1] * w[2], v[2] * w[1])
    ELSE Bad(v, w)

----------------------------------------------------------------------------
(* Dense vectors (numpy arrays of scalars), as sequences. *)

\* an array holds the values of its entries: the sequence s, entry by entry
Array(s) == SubSeq(s, 1, Len(s))

VAdd(u, v) == Array([i \in 1..Len(u) |-> Add(u[i], v[i])])

VSub(u, v) == Array([i \in 1..Len(u) |-> Sub(u[i], v[i])])

VScale(c, v) == Array([i \in 1..Len(v) |-> Mul(c, v[i])])

VMul(u, v) == Array([i \in 1..Len(u) |-> Mul(u[i], v[i])])

\* every entry was followed exactly (finite or non-finite, but within MaxMag); a
\* loop over an array stops following it once this fails
Exact(v) == \A i \in 1..Len(v) : v[i] # OVF

Zeros(n) == [i \in 1..n |-> Zero]

IsZeroVec(v) == \A i \in 1..Len(v) : v[i] = Zero

\* range(n) as a sequence: <<0, 1, ..., n-1>>
Iota(n) == [i \in 1..n |-> i - 1]

Reverse(s) == [i \in 1..Len(s) |-> s[Len(s) + 1 - i]]

----------------------------------------------------------------------------
(* Sparse operators.  A matrix is a record                                 *)
(*   format    "csr", "csc", "bsr" or "coo"                                *)
(*   shape     <<M, N>>                                                    *)
(*   blocksize <<R, C>>   (bsr; <<1, 1>> otherwise)                        *)
(*   indptr, indices, data   the compressed arrays (csr, csc, bsr)         *)
(*   row       the row-index array of coo (indices holds its columns)      *)
(*   dtype     the scalar element type                                     *)
(* data holds scalars, and for bsr one R x C block (a sequence of rows)    *)
(* per stored block.                                                       *)

Mat(format, shape, blocksize, indptr, indices, data, row, dtype) ==
    [format |-> format, shape |-> shape, blocksize |-> blocksize,
     indptr |-> indptr, indices |-> indices, data |-> data, row |-> row,
     dtype |-> dtype]

\* positions jj of the stored entries of compressed row (or column) i
Span(Ap, i) == Ap[i + 1] .. (Ap[i + 2] - 1)

\* the compressed row (or column) that holds position jj
Owner(Ap, jj) == CHOOSE i \in 0..(Len(Ap) - 2) : jj \in Span(Ap, i)

\* the stored entries of A as triples <<i, j, value>>
Triples(A) ==
    CASE A.format = "csr" ->
           {<<Owner(A.indptr, jj), A.indices[jj + 1], A.data[jj + 1]>> :
                jj \in 0..(Len(A.indices) - 1)}
      [] A.format = "csc" ->
           {<<A.indices[jj + 1], Owner(A.indptr, jj), A.data[jj + 1]>> :
                jj \in 0..(Len(A.indices) - 1)}
      [] A.format = "coo" ->
           {<<A.row[k], A.indices[k], A.data[k]>> : k \in 1..Len(A.data)}
      [] A.format = "bsr" ->
           LET BR == A.blocksize[1]
               BC == A.blocksize[2]
           IN  {<<Owner(A.indptr, q[1]) * BR + q[2], A.indices[q[1] + 1] * BC + q[3],
                  A.data[q[1] + 1][q[2] + 1][q[3] + 1]>> :
                    q \in (0..(Len(A.indices) - 1)) \X (0..(BR - 1)) \X (0..(BC - 1))}

\* the entries of row i among the triples T, by increasing column
RECURSIVE RowOf(_, _, _, _)
RowOf(T, i, j, N) ==
    IF j >= N THEN <<>>
    ELSE LET hit == {t \in T : t[1] = i /\ t[2] = j}
         IN  (IF hit = {} THEN <<>> ELSE <<CHOOSE t \in hit : TRUE>>)
             \o RowOf(T, i, j + 1, N)

\* the entries of rows i, i+1, ..., M-1, row by row
RECURSIVE RowMajor(_, _, _, _)
RowMajor(T, i, M, N) ==
    IF i >= M THEN <<>> ELSE RowOf(T, i, 0, N) \o RowMajor(T, i + 1, M, N)

\* scipy's conversion to CSR: the same stored entries, row by row with sorted
\* column indices
tocsr(A) ==
    LET T == Triples(A)
        M == A.shape[1]
        N == A.shape[2]
        E == RowMajor(T, 0, M, N)
    IN  Mat("csr", A.shape, <<1, 1>>,
            [i \in 1..(M + 1) |-> Cardinality({t \in T : t[1] < i - 1})],
            [k \in 1..Len(E) |-> E[k][2]],
            [k \in 1..Len(E) |-> E[k][3]],
            <<>>, A.dtype)

\* the transpose's entries, used to build the column-compressed form
Flip(T) == {<<t[2], t[1], t[3]>> : t \in T}

tocsc(A) ==
    LET T == Flip(Triples(A))
        M == A.shape[1]
        N == A.shape[2]
        E == RowMajor(T, 0, N, M)
    IN  Mat("csc", A.shape, <<1, 1>>,
            [j \in 1..(N + 1) |-> Cardinality({t \in T : t[1] < j - 1})],
            [k \in 1..Len(E) |-> E[k][2]],
            [k \in 1..Len(E) |-> E[k][3]],
            <<>>, A.dtype)

\* A.asformat(fmt) for the formats the callers name first
asformat(A, fmt) ==
    IF A.format = fmt THEN A
    ELSE IF fmt = "csc" THEN tocsc(A)
    ELSE tocsr(A)

\* sum of the scalars of a sequence, left to right
RECURSIVE SumSeq(_, _, _)
SumSeq(s, k, acc) == IF k > Len(s) THEN acc ELSE SumSeq(s, k + 1, Add(acc, s[k]))

\* the product A*x over the stored entries of A
MatVec(A, v) ==
    LET T == Triples(A)
    IN  Array([i \in 1..A.shape[1] |->
                 LET E == RowOf(T, i - 1, 0, A.shape[2])
                 IN  SumSeq([k \in 1..Len(E) |-> Mul(E[k][3], v[E[k][2] + 1])],
                            1, Zero)])

----------------------------------------------------------------------------
(* The compiled kernels (amg_core) and the helpers of pyamg.util that the  *)
(* Python functions call.  Each takes the arrays as the Python code passes *)
(* them and returns the new contents of the iterate.                       *)

\* the rows a kernel visits: row_start, row_start + row_step, ..., short of row_stop
RECURSIVE RowRange(_, _, _)
RowRange(row_start, row_stop, row_step) ==
    IF (row_step > 0 /\ row_start >= row_stop) \/ (row_step < 0 /\ row_start <= row_stop)
       \/ row_step = 0
    THEN <<>>
    ELSE <<row_start>> \o RowRange(row_start + row_step, row_stop, row_step)

\* scan of row i's stored entries jj..end-1: <<sum of A_ij*x_j over j # i, A_ii>>
RECURSIVE ScanRow(_, _, _, _, _, _)
ScanRow(Aj, Ax, xv, i, jj, acc) ==
    IF jj = <<>> THEN acc
    ELSE LET j == Aj[Head(jj) + 1]
             a == Ax[Head(jj) + 1]
         IN  ScanRow(Aj, Ax, xv, i, Tail(jj),
                     IF j = i THEN <<acc[1], a>>
                     ELSE <<Add(acc[1], Mul(a, xv[j + 1])), acc[2]>>)

\* the positions Ap[i], ..., Ap[i+1]-1 of row i, in order
RowPos(Ap, i) == [k \in 1..(Ap[i + 2] - Ap[i + 1]) |-> Ap[i + 1] + k - 1]

\* one Gauss-Seidel relaxation of row i: x_i <- (b_i - sum_{j # i} A_ij x_j) / A_ii,
\* A_ii being zero when row i stores no diagonal entry
RelaxRow(Ap, Aj, Ax, xv, bv, i) ==
    LET sd == ScanRow(Aj, Ax, xv, i, RowPos(Ap, i), <<Zero, Zero>>)
    IN  [xv EXCEPT ![i + 1] = Div(Sub(bv[i + 1], sd[1]), sd[2])]

RECURSIVE RelaxRows(_, _, _, _, _, _)
RelaxRows(Ap, Aj, Ax, xv, bv, rows) ==
    IF rows = <<>> \/ ~Exact(xv) THEN xv
    ELSE RelaxRows(Ap, Aj, Ax, RelaxRow(Ap, Aj, Ax, xv, bv, Head(rows)), bv, Tail(rows))

amg_core_gauss_seidel(Ap, Aj, Ax, xv, bv, row_start, row_stop, row_step) ==
    RelaxRows(Ap, Aj, Ax, xv, bv, RowRange(row_start, row_stop, row_step))

\* the same relaxation over the rows Id[row_start], Id[row_start + row_step], ...
amg_core_gauss_seidel_indexed(Ap, Aj, Ax, xv, bv, Id, row_start, row_stop, row_step) ==
    LET pos == RowRange(row_start, row_stop, row_step)
    IN  RelaxRows(Ap, Aj, Ax, xv, bv, [k \in 1..Len(pos) |-> Id[pos[k] + 1]])

\* weighted Jacobi: every row reads the copy temp of the iterate made on entry,
\* x_i <- temp_i + omega * (1 / A_ii) * (b_i - sum_j A_ij temp_j)
amg_core_jacobi(Ap, Aj, Ax, xv, bv, row_start, row_stop, row_step, omega) ==
    LET temp == xv
        rows == RowRange(row_start, row_stop, row_step)
        upd(i) ==
            LET sd == ScanRow(Aj, Ax, temp, i, RowPos(Ap, i), <<Zero, Zero>>)
                r  == Sub(bv[i + 1], Add(sd[1], Mul(sd[2], temp[i + 1])))
            IN  Add(temp[i + 1], Mul(omega, Mul(Div(One, sd[2]), r)))
    IN  Array([k \in 1..Len(xv) |->
                 IF \E q \in 1..Len(rows) : rows[q] = k - 1 THEN upd(k - 1) ELSE xv[k]])

\* get_diagonal(A, norm_eq=2, inv=True): the reciprocal of the diagonal of A A^T,
\* 1 / sum_j A_ij^2 for each row i
get_diagonal_norm_eq_inv(A) ==
    Array([k \in 1..A.shape[1] |->
             LET pos == RowPos(A.indptr, k - 1)
             IN  Div(One, SumSeq([q \in 1..Len(pos) |->
                                     Mul(A.data[pos[q] + 1], A.data[pos[q] + 1])],
                                 1, Zero))])

\* x <- x + c * (row i of A)^T, entry by entry over the stored entries jj
RECURSIVE AddRowT(_, _, _, _, _)
AddRowT(Aj, Ax, xv, c, jj) ==
    IF jj = <<>> THEN xv
    ELSE LET j == Aj[Head(jj) + 1]
         IN  AddRowT(Aj, Ax, [xv EXCEPT ![j + 1] = Add(@, Mul(c, Ax[Head(jj) + 1]))],
                     c, Tail(jj))

\* the simultaneous row action: temp accumulates omega * A_i^T * delta_i over the
\* rows, all from the same delta, and is then added to x
RECURSIVE KaczmarzAccum(_, _, _, _, _, _, _)
KaczmarzAccum(Ap, Aj, Ax, temp, delta, omega, rows) ==
    IF rows = <<>> \/ ~Exact(temp) THEN temp
    ELSE KaczmarzAccum(Ap, Aj, Ax,
                       AddRowT(Aj, Ax, temp, Mul(omega, delta[Head(rows) + 1]),
                               RowPos(Ap, Head(rows))),
                       delta, omega, Tail(rows))

amg_core_kaczmarz_jacobi(Ap, Aj, Ax, xv, bv, delta, row_start, row_stop, row_step, omega) ==
    LET rows == RowRange(row_start, row_stop, row_step)
        temp == KaczmarzAccum(Ap, Aj, Ax, Zeros(Len(xv)), delta, omega, rows)
    IN  Array([k \in 1..Len(xv) |->
                 IF \E q \in 1..Len(rows) : rows[q] = k - 1
                 THEN Add(xv[k], temp[k]) ELSE xv[k]])

\* the sequential row action: x <- x + Dinv_i (b_i - A_i . x) A_i^T, row after row
RECURSIVE KaczmarzRows(_, _, _, _, _, _, _)
KaczmarzRows(Ap, Aj, Ax, xv, bv, Dinv, rows) ==
    IF rows = <<>> \/ ~Exact(xv) THEN xv
    ELSE LET i   == Head(rows)
             pos == RowPos(Ap, i)
             Aix == SumSeq([q \in 1..Len(pos) |->
                              Mul(Ax[pos[q] + 1], xv[Aj[pos[q] + 1] + 1])], 1, Zero)
             c   == Mul(Dinv[i + 1], Sub(bv[i + 1], Aix))
         IN  KaczmarzRows(Ap, Aj, Ax, AddRowT(Aj, Ax, xv, c, pos), bv, Dinv, Tail(rows))

amg_core_kaczmarz_gauss_seidel(Ap, Aj, Ax, xv, bv, row_start, row_stop, row_step, Dinv) ==
    KaczmarzRows(Ap, Aj, Ax, xv, bv, Dinv, RowRange(row_start, row_stop, row_step))

\* numpy.ravel of the (nblocks, R, C) array of blocks: block by block, row by row
RECURSIVE Flatten(_)
Flatten(ss) == IF ss = <<>> THEN <<>> ELSE Head(ss) \o Flatten(Tail(ss))

ravel_blocks(data) == Flatten([k \in 1..Len(data) |-> Flatten(data[k])])

\* the matrix M without row 1 and column c
Minor(M, c) ==
    [r \in 1..(Len(M) - 1) |->
       [k \in 1..(Len(M) - 1) |-> M[r + 1][IF k < c THEN k ELSE k + 1]]]

RECURSIVE Det(_)
Det(M) ==
    IF Len(M) = 1 THEN M[1][1]
    ELSE SumSeq([c \in 1..Len(M) |->
                   LET t == Mul(M[1][c], Det(Minor(M, c)))
                   IN  IF c % 2 = 1 THEN t ELSE Neg(t)], 1, Zero)

\* the solution d of the dense system D d = rhs (non-finite when D is singular)
SolveDense(D, rhs) ==
    LET dt == Det(D)
    IN  [k \in 1..Len(rhs) |->
           Div(Det([r \in 1..Len(D) |->
                      [c \in 1..Len(D) |-> IF c = k THEN rhs[r] ELSE D[r][c]]]), dt)]

\* scan of block row i: <<b_i - sum_{j # i} A_ij x_j, A_ii>>, A_ii being the zero
\* block when block row i stores no diagonal block
RECURSIVE ScanBlockRow(_, _, _, _, _, _, _)
ScanBlockRow(Aj, Ax, xv, i, BS, jj, acc) ==
    IF jj = <<>> THEN acc
    ELSE LET j   == Aj[Head(jj) + 1]
             blk == [r \in 1..BS |->
                       [c \in 1..BS |-> Ax[Head(jj) * BS * BS + (r - 1) * BS + c]]]
         IN  ScanBlockRow(Aj, Ax, xv, i, BS, Tail(jj),
                IF j = i THEN <<acc[1], blk>>
                ELSE <<[r \in 1..BS |->
                          Sub(acc[1][r],
                              SumSeq([c \in 1..BS |-> Mul(blk[r][c], xv[j * BS + c])],
                                     1, Zero))],
                       acc[2]>>)

\* xv with the entries lo+r, ..., lo+Len(d) replaced by d[r], ..., d[Len(d)]
RECURSIVE SetBlock(_, _, _, _)
SetBlock(xv, d, lo, r) ==
    IF r > Len(d) THEN xv ELSE SetBlock([xv EXCEPT ![lo + r] = d[r]], d, lo, r + 1)

\* one block relaxation: the R unknowns of block row i solve A_ii x_i = b_i - sum
RelaxBlockRow(Ap, Aj, Ax, xv, bv, i, BS) ==
    LET sd == ScanBlockRow(Aj, Ax, xv, i, BS, RowPos(Ap, i),
                           <<[r \in 1..BS |-> bv[i * BS + r]],
                             [r \in 1..BS |-> [c \in 1..BS |-> Zero]]>>)
    IN  SetBlock(xv, SolveDense(sd[2], sd[1]), i * BS, 1)

RECURSIVE RelaxBlockRows(_, _, _, _, _, _, _)
RelaxBlockRows(Ap, Aj, Ax, xv, bv, rows, BS) ==
    IF rows = <<>> \/ ~Exact(xv) THEN xv
    ELSE RelaxBlockRows(Ap, Aj, Ax, RelaxBlockRow(Ap, Aj, Ax, xv, bv, Head(rows), BS),
                        bv, Tail(rows), BS)

amg_core_block_gauss_seidel(Ap, Aj, Ax, xv, bv, row_start, row_stop, row_step, BS) ==
    RelaxBlockRows(Ap, Aj, Ax, xv, bv, RowRange(row_start, row_stop, row_step), BS)

----------------------------------------------------------------------------
(* Arrays and the caller's memory.  mem = [x |-> ..., b |-> ...] holds the *)
(* contents of the caller's two buffers.  An array object is a record      *)
(*   isarray  it is a numpy.ndarray                                        *)
(*   shape, dtype                                                          *)
(*   carray   flags.carray: C-contiguous (and writeable, aligned)          *)
(*   base     the buffer it views: "x", "b", or "own" for a fresh copy     *)
(*   data     the contents of a fresh copy (<<>> for a view)               *)

Arr(isarray, shape, dtype, carray, base, data) ==
    [isarray |-> isarray, shape |-> shape, dtype |-> dtype, carray |-> carray,
     base |-> base, data |-> data]

Load(mem, a) == IF a.base = "own" THEN a.data ELSE mem[a.base]

\* a write through the array a: it reaches the caller's buffer that a views
Store(mem, a, v) == IF a.base = "own" THEN mem ELSE [mem EXCEPT ![a.base] = v]

\* numpy.ravel: a flat view of a contiguous array, a flat copy of any other
ravel(mem, a) ==
    IF a.carray
    THEN [a EXCEPT !.shape = <<Len(Load(mem, a))>>]
    ELSE Arr(TRUE, <<Len(Load(mem, a))>>, a.dtype, TRUE, "own", Load(mem, a))

\* formats=None
None == <<>>

\* sparse.csr_matrix(A) of a sparse A
csr_matrix(A) == IF A.format = "csr" THEN A ELSE tocsr(A)

\* make_system_value_error without the check of x's shape
make_system_value_error_no_x_shape(A, x, b) ==
    LET M == A.shape[1]
        N == A.shape[2]
    IN  IF ~x.isarray THEN "ValueError"
        ELSE IF ~b.isarray THEN "ValueError"
        ELSE IF M # N THEN "ValueError"
        ELSE IF b.shape \notin {<<M>>, <<M, 1>>} THEN "ValueError"
        ELSE "none"

\* ValueError of make_system's checks before the dtype check, or "none"
make_system_value_error(A, x, b) ==
    LET M == A.shape[1]
        N == A.shape[2]
    IN  IF ~x.isarray THEN "ValueError"
        ELSE IF ~b.isarray THEN "ValueError"
        ELSE IF M # N THEN "ValueError"
        ELSE IF x.shape \notin {<<M>>, <<M, 1>>} THEN "ValueError"
        ELSE IF b.shape \notin {<<M>>, <<M, 1>>} THEN "ValueError"
        ELSE "none"

\* convert_format with a warning for the conversion of BSR to CSR too
convert_format_warns_bsr(A, formats) ==
    IF formats = None THEN <<A, FALSE>>
    ELSE IF formats = <<"csr">>
    THEN IF A.format = "csr" THEN <<A, FALSE>>
         ELSE <<csr_matrix(A), TRUE>>
    ELSE IF \E k \in 1..Len(formats) : formats[k] = A.format
         THEN <<A, FALSE>>
         ELSE <<asformat(csr_matrix(A), formats[1]), FALSE>>

\* the format step of make_system: <<A in an acceptable format, whether a
\* SparseEfficiencyWarning was issued>>
convert_format(A, formats) ==
    IF formats = None THEN <<A, FALSE>>
    ELSE IF formats = <<"csr">>
    THEN IF A.format = "csr" THEN <<A, FALSE>>
         ELSE IF A.format = "bsr" THEN <<tocsr(A), FALSE>>
         ELSE <<csr_matrix(A), TRUE>>
    ELSE IF \E k \in 1..Len(formats) : formats[k] = A.format
         THEN <<A, FALSE>>
         ELSE <<asformat(csr_matrix(A), formats[1]), FALSE>>

\* the exception of make_system's checks on the converted A, or "none"
make_system_error(A, x, b) ==
    IF make_system_value_error(A, x, b) # "none" THEN make_system_value_error(A, x, b)
    ELSE IF A.dtype # x.dtype \/ A.dtype # b.dtype THEN "TypeError"
    ELSE IF ~x.carray THEN "ValueError"
    ELSE "none"

\* what make_system leaves when its checks end as err: the converted A, and x
\* and b flattened when it returns
make_system_return(conv, x, b, mem, err) ==
    [err |-> err, warned |-> conv[2], A |-> conv[1],
     x |-> IF err = "none" THEN ravel(mem, x) ELSE x,
     b |-> IF err = "none" THEN ravel(mem, b) ELSE b]

\* make_system after the format step, conv being <<A converted, warned>>
make_system_checks(conv, x, b, mem) ==
    make_system_return(conv, x, b, mem, make_system_error(conv[1], x, b))

\* make_system(A, x, b, formats): [err, warned, A, x, b]
make_system(A, x, b, mem, formats) ==
    make_system_checks(convert_format(A, formats), x, b, mem)

\* what a call leaves behind: the caller's memory, the exception raised ("none"
\* when it returns) and whether a warning was issued
Res(mem, err, warned) == [mem |-> mem, err |-> err, warned |-> warned]

----------------------------------------------------------------------------
(* gauss_seidel *)

\* gs_csr_loop as a loop that tests its count after the sweep
RECURSIVE gs_csr_loop_sweep_first(_, _, _, _, _, _, _)
gs_csr_loop_sweep_first(A, xv, bv, row_start, row_stop, row_step, iterations) ==
    LET x1 == amg_core_gauss_seidel(A.indptr, A.indices, A.data, xv, bv,
                                    row_start, row_stop, row_step)
    IN  IF iterations <= 1 \/ ~Exact(x1) THEN x1
        ELSE gs_csr_loop_sweep_first(A, x1, bv, row_start, row_stop, row_step,
                                     iterations - 1)

RECURSIVE gs_csr_loop(_, _, _, _, _, _, _)
gs_csr_loop(A, xv, bv, row_start, row_stop, row_step, iterations) ==
    IF iterations <= 0 \/ ~Exact(xv) THEN xv
    ELSE gs_csr_loop(A,
            amg_core_gauss_seidel(A.indptr, A.indices, A.data, xv, bv,
                                  row_start, row_stop, row_step),
            bv, row_start, row_stop, row_step, iterations - 1)

\* gs_bsr_loop with the block kernel stopped one block row early
RECURSIVE gs_bsr_loop_one_short(_, _, _, _, _, _, _, _)
gs_bsr_loop_one_short(A, xv, bv, row_start, row_stop, row_step, BS, iterations) ==
    IF iterations <= 0 \/ ~Exact(xv) THEN xv
    ELSE gs_bsr_loop_one_short(A,
            amg_core_block_gauss_seidel(A.indptr, A.indices, ravel_blocks(A.data), xv, bv,
                                        row_start, row_stop - row_step, row_step, BS),
            bv, row_start, row_stop, row_step, BS, iterations - 1)

RECURSIVE gs_bsr_loop(_, _, _, _, _, _, _, _)
gs_bsr_loop(A, xv, bv, row_start, row_stop, row_step, BS, iterations) ==
    IF iterations <= 0 \/ ~Exact(xv) THEN xv
    ELSE gs_bsr_loop(A,
            amg_core_block_gauss_seidel(A.indptr, A.indices, ravel_blocks(A.data), xv, bv,
                                        row_start, row_stop, row_step, BS),
            bv, row_start, row_stop, row_step, BS, iterations - 1)

\* gs_sweeps with the kernel started one row late
gs_sweeps_late(A, x, b, mem, row_start, row_stop, row_step, iterations, warned) ==
    IF A.format = "csr"
    THEN Res(Store(mem, x, gs_csr_loop(A, Load(mem, x), Load(mem, b),
                                       row_start + row_step, row_stop, row_step,
                                       iterations)),
             "none", warned)
    ELSE LET BR == A.blocksize[1]
             BC == A.blocksize[2]
         IN  IF BR # BC THEN Res(mem, "ValueError", warned)
             ELSE Res(Store(mem, x, gs_bsr_loop(A, Load(mem, x), Load(mem, b),
                                                row_start \div BR, row_stop \div BR,
                                                row_step, BR, iterations)),
                      "none", warned)

\* gs_sweeps with the block bounds rounded towards zero: -1 / R taken as 0
gs_sweeps_truncated(A, x, b, mem, row_start, row_stop, row_step, iterations, warned) ==
    IF A.format = "csr"
    THEN Res(Store(mem, x, gs_csr_loop(A, Load(mem, x), Load(mem, b),
                                       row_start, row_stop, row_step, iterations)),
             "none", warned)
    ELSE LET BR == A.blocksize[1]
             BC == A.blocksize[2]
         IN  IF BR # BC THEN Res(mem, "ValueError", warned)
             ELSE Res(Store(mem, x, gs_bsr_loop(A, Load(mem, x), Load(mem, b),
                                                row_start \div BR,
                                                IF row_stop < 0 THEN -((-row_stop) \div BR)
                                                ELSE row_stop \div BR,
                                                row_step, BR, iterations)),
                      "none", warned)

\* the sweep over the rows once the direction has set row_start, row_stop, row_step
gs_sweeps(A, x, b, mem, row_start, row_stop, row_step, iterations, warned) ==
    IF A.format = "csr"
    THEN Res(Store(mem, x, gs_csr_loop(A, Load(mem, x), Load(mem, b),
                                       row_start, row_stop, row_step, iterations)),
             "none", warned)
    ELSE LET BR == A.blocksize[1]
             BC == A.blocksize[2]
         IN  IF BR # BC THEN Res(mem, "ValueError", warned)
             ELSE Res(Store(mem, x, gs_bsr_loop(A, Load(mem, x), Load(mem, b),
                                                row_start \div BR, row_stop \div BR,
                                                row_step, BR, iterations)),
                      "none", warned)

RECURSIVE gauss_seidel(_, _, _, _, _, _)
RECURSIVE gs_symmetric(_, _, _, _, _)

\* gauss_seidel on the system s that make_system left
gs_on(s, mem, iterations, sweep) ==
    IF s.err # "none" THEN Res(mem, s.err, s.warned)
    ELSE IF sweep = "forward"
    THEN gs_sweeps(s.A, s.x, s.b, mem, 0, s.x.shape[1], 1, iterations, s.warned)
    ELSE IF sweep = "backward"
    THEN gs_sweeps(s.A, s.x, s.b, mem, s.x.shape[1] - 1, -1, -1, iterations, s.warned)
    ELSE IF sweep = "symmetric"
    THEN gs_symmetric(s.A, s.x, s.b, Res(mem, "none", s.warned), iterations)
    ELSE Res(mem, "ValueError", s.warned)

gauss_seidel(A, x, b, mem, iterations, sweep) ==
    gs_on(make_system(A, x, b, mem, <<"csr", "bsr">>), mem, iterations, sweep)

\* the state after a forward call that ended as f and a backward call that ended
\* as bk, made from the state st
AfterPair(st, f, bk) == Res(bk.mem, bk.err, st.warned \/ f.warned \/ bk.warned)

\* the backward call of a pass of the symmetric loop, made when the forward call
\* returned as f
gs_backward(A, x, b, f) ==
    IF f.err # "none" THEN f ELSE gauss_seidel(A, x, b, f.mem, 1, "backward")

gs_pass(A, x, b, st, f) == AfterPair(st, f, gs_backward(A, x, b, f))

\* gs_symmetric as all the forward sweeps first, then all the backward sweeps
gs_symmetric_blocked(A, x, b, st, iterations) ==
    gauss_seidel(A, x, b, gauss_seidel(A, x, b, st.mem, iterations, "forward").mem,
                 iterations, "backward")

\* the loop of the symmetric branch: a forward call, then a backward call
gs_symmetric(A, x, b, st, iterations) ==
    IF iterations <= 0 \/ st.err # "none" THEN st
    ELSE gs_symmetric(A, x, b,
                      gs_pass(A, x, b, st, gauss_seidel(A, x, b, st.mem, 1, "forward")),
                      iterations - 1)

----------------------------------------------------------------------------
(* sor *)

\* sor_blend with the two weights exchanged
sor_blend_swapped(x, st, omega, x_old, g) ==
    IF g.err # "none" THEN Res(g.mem, g.err, st.warned \/ g.warned)
    ELSE Res(Store(g.mem, x, VAdd(VScale(Sub(One, omega), Load(g.mem, x)),
                                  VScale(omega, x_old))),
             "none", st.warned \/ g.warned)

\* the end of an iteration of sor, the call of gauss_seidel having ended as g:
\* x *= omega; x_old *= (1-omega); x += x_old
sor_blend(x, st, omega, x_old, g) ==
    IF g.err # "none" THEN Res(g.mem, g.err, st.warned \/ g.warned)
    ELSE Res(Store(g.mem, x, VAdd(VScale(omega, Load(g.mem, x)),
                                  VScale(Sub(One, omega), x_old))),
             "none", st.warned \/ g.warned)

\* sor_loop with two Gauss-Seidel sweeps in every iteration
RECURSIVE sor_loop_two_sweeps(_, _, _, _, _, _, _)
sor_loop_two_sweeps(A, x, b, st, omega, iterations, sweep) ==
    IF iterations <= 0 \/ st.err # "none" THEN st
    ELSE sor_loop_two_sweeps(A, x, b,
                             sor_blend(x, st, omega, Load(st.mem, x),
                                       gauss_seidel(A, x, b, st.mem, 2, sweep)),
                             omega, iterations - 1, sweep)

\* the loop of sor; st is the state after the iterations made so far
RECURSIVE sor_loop(_, _, _, _, _, _, _)
sor_loop(A, x, b, st, omega, iterations, sweep) ==
    IF iterations <= 0 \/ st.err # "none" THEN st
    ELSE sor_loop(A, x, b,
                  sor_blend(x, st, omega, Load(st.mem, x),
                            gauss_seidel(A, x, b, st.mem, 1, sweep)),
                  omega, iterations - 1, sweep)

\* sor on the system s that make_system left
sor_on(s, mem, omega, iterations, sweep) ==
    IF s.err # "none" THEN Res(mem, s.err, s.warned)
    ELSE sor_loop(s.A, s.x, s.b, Res(mem, "none", s.warned), omega, iterations, sweep)

sor(A, x, b, mem, omega, iterations, sweep) ==
    sor_on(make_system(A, x, b, mem, <<"csr", "bsr">>), mem, omega, iterations, sweep)

----------------------------------------------------------------------------
(* jacobi *)

\* type_prep(A.dtype, [omega]): omega as a scalar of the matrix's element type
type_prep(dtype, omega) == omega

\* jacobi_loop with rows relaxed in place, each reading the rows updated before it
RECURSIVE jacobi_loop_in_place(_, _, _, _, _, _, _, _)
jacobi_loop_in_place(A, xv, bv, row_start, row_stop, row_step, omega, iterations) ==
    IF iterations <= 0 \/ ~Exact(xv) THEN xv
    ELSE jacobi_loop_in_place(A,
            VAdd(VScale(Sub(One, omega), xv),
                 VScale(omega, amg_core_gauss_seidel(A.indptr, A.indices, A.data, xv, bv,
                                                     row_start, row_stop, row_step))),
            bv, row_start, row_stop, row_step, omega, iterations - 1)

RECURSIVE jacobi_loop(_, _, _, _, _, _, _, _)
jacobi_loop(A, xv, bv, row_start, row_stop, row_step, omega, iterations) ==
    IF iterations <= 0 \/ ~Exact(xv) THEN xv
    ELSE jacobi_loop(A,
            amg_core_jacobi(A.indptr, A.indices, A.data, xv, bv,
                            row_start, row_stop, row_step, omega),
            bv, row_start, row_stop, row_step, omega, iterations - 1)

\* jacobi on the system s that make_system left, with the row range
\* slice(None).indices(A.shape[0])
jacobi_on(s, mem, iterations, omega, row_start, row_stop, row_step) ==
    IF s.err # "none" THEN Res(mem, s.err, s.warned)
    ELSE IF (row_stop - row_start) * row_step <= 0 THEN Res(mem, "none", s.warned)
    ELSE Res(Store(mem, s.x,
                   jacobi_loop(s.A, Load(mem, s.x), Load(mem, s.b),
                               row_start, row_stop, row_step,
                               type_prep(s.A.dtype, omega), iterations)),
             "none", s.warned)

jacobi(A, x, b, mem, iterations, omega) ==
    jacobi_on(make_system(A, x, b, mem, <<"csr">>), mem, iterations, omega,
              0, A.shape[1], 1)

----------------------------------------------------------------------------
(* polynomial *)

\* pyamg.util.linalg.norm(x) == 0: x is exactly the zero vector
norm_is_zero(xv) == IsZeroVec(xv)

\* horner without the product by A: h = c*residual + h
RECURSIVE horner_no_product(_, _, _, _)
horner_no_product(A, residual, h, cs) ==
    IF cs = <<>> \/ ~Exact(h) THEN h
    ELSE horner_no_product(A, residual, VAdd(VScale(Head(cs), residual), h), Tail(cs))

\* for c in coeffients[1:]: h = c*residual + A*h
RECURSIVE horner(_, _, _, _)
horner(A, residual, h, cs) ==
    IF cs = <<>> \/ ~Exact(h) THEN h
    ELSE horner(A, residual, VAdd(VScale(Head(cs), residual), MatVec(A, h)), Tail(cs))

\* residual = b if norm(x) == 0 else b - A*x
poly_residual(A, xv, bv) == IF norm_is_zero(xv) THEN bv ELSE VSub(bv, MatVec(A, xv))

\* h = coeffients[0]*residual, then the loop over coeffients[1:]
poly_h(A, residual, coeffients) ==
    horner(A, residual, VScale(coeffients[1], residual), Tail(coeffients))

\* x += h
poly_update(A, xv, bv, coeffients) ==
    VAdd(xv, poly_h(A, poly_residual(A, xv, bv), coeffients))

\* polynomial_loop with the residual scaled where it lies, residual *= coeffients[0]:
\* the residual of an exactly-zero x is b itself
RECURSIVE polynomial_loop_scales_residual(_, _, _, _, _, _)
polynomial_loop_scales_residual(A, x, b, st, coeffients, iterations) ==
    IF iterations <= 0 \/ st.err # "none" THEN st
    ELSE IF coeffients = <<>>
    THEN Res(st.mem, "IndexError", st.warned)
    ELSE polynomial_loop_scales_residual(A, x, b,
            Res(Store(Store(st.mem, x,
                            poly_update(A, Load(st.mem, x), Load(st.mem, b), coeffients)),
                      b,
                      IF norm_is_zero(Load(st.mem, x))
                      THEN VScale(coeffients[1], Load(st.mem, b))
                      ELSE Load(st.mem, b)),
                "none", st.warned),
            coeffients, iterations - 1)

RECURSIVE polynomial_loop(_, _, _, _, _, _)
polynomial_loop(A, x, b, st, coeffients, iterations) ==
    IF iterations <= 0 \/ st.err # "none" THEN st
    ELSE IF coeffients = <<>>
    THEN Res(st.mem, "IndexError", st.warned)
    ELSE polynomial_loop(A, x, b,
                         Res(Store(st.mem, x,
                                   poly_update(A, Load(st.mem, x), Load(st.mem, b),
                                               coeffients)),
                             "none", st.warned),
                         coeffients, iterations - 1)

\* polynomial on the system s that make_system left
polynomial_on(s, mem, coeffients, iterations) ==
    IF s.err # "none" THEN Res(mem, s.err, s.warned)
    ELSE polynomial_loop(s.A, s.x, s.b, Res(mem, "none", s.warned),
                         coeffients, iterations)

polynomial(A, x, b, mem, coeffients, iterations) ==
    polynomial_on(make_system(A, x, b, mem, None), mem, coeffients, iterations)

----------------------------------------------------------------------------
(* gauss_seidel_indexed *)

RECURSIVE gsi_loop(_, _, _, _, _, _, _, _)
gsi_loop(A, xv, bv, indices, row_start, row_stop, row_step, iterations) ==
    IF iterations <= 0 \/ ~Exact(xv) THEN xv
    ELSE gsi_loop(A,
            amg_core_gauss_seidel_indexed(A.indptr, A.indices, A.data, xv, bv, indices,
                                          row_start, row_stop, row_step),
            bv, indices, row_start, row_stop, row_step, iterations - 1)

\* gsi_sweeps with the kernel stopped one index early
gsi_sweeps_early(A, x, b, mem, indices, row_start, row_stop, row_step, iterations, warned) ==
    Res(Store(mem, x, gsi_loop(A, Load(mem, x), Load(mem, b), indices,
                               row_start, row_stop - row_step, row_step, iterations)),
        "none", warned)

gsi_sweeps(A, x, b, mem, indices, row_start, row_stop, row_step, iterations, warned) ==
    Res(Store(mem, x, gsi_loop(A, Load(mem, x), Load(mem, b), indices,
                               row_start, row_stop, row_step, iterations)),
        "none", warned)

RECURSIVE gauss_seidel_indexed(_, _, _, _, _, _, _)
RECURSIVE gsi_symmetric(_, _, _, _, _, _)

\* gauss_seidel_indexed on the system s that make_system left
gsi_on(s, mem, indices, iterations, sweep) ==
    IF s.err # "none" THEN Res(mem, s.err, s.warned)
    ELSE IF sweep = "forward"
    THEN gsi_sweeps(s.A, s.x, s.b, mem, indices, 0, Len(indices), 1,
                    iterations, s.warned)
    ELSE IF sweep = "backward"
    THEN gsi_sweeps(s.A, s.x, s.b, mem, indices, Len(indices) - 1, -1, -1,
                    iterations, s.warned)
    ELSE IF sweep = "symmetric"
    THEN gsi_symmetric(s.A, s.x, s.b, Res(mem, "none", s.warned), indices, iterations)
    ELSE Res(mem, "ValueError", s.warned)

gauss_seidel_indexed(A, x, b, mem, indices, iterations, sweep) ==
    gsi_on(make_system(A, x, b, mem, <<"csr">>), mem, indices, iterations, sweep)

\* gsi_backward over all the rows n-1, ..., 0 instead of the supplied indices
gsi_backward_all_rows(A, x, b, indices, f) ==
    IF f.err # "none" THEN f
    ELSE gauss_seidel_indexed(A, x, b, f.mem, Iota(A.shape[1]), 1, "backward")

gsi_backward(A, x, b, indices, f) ==
    IF f.err # "none" THEN f
    ELSE gauss_seidel_indexed(A, x, b, f.mem, indices, 1, "backward")

gsi_pass(A, x, b, st, indices, f) == AfterPair(st, f, gsi_backward(A, x, b, indices, f))

gsi_symmetric(A, x, b, st, indices, iterations) ==
    IF iterations <= 0 \/ st.err # "none" THEN st
    ELSE gsi_symmetric(A, x, b,
                       gsi_pass(A, x, b, st, indices,
                                gauss_seidel_indexed(A, x, b, st.mem, indices, 1,
                                                     "forward")),
                       indices, iterations - 1)

----------------------------------------------------------------------------
(* kaczmarz_jacobi, kaczmarz_richardson, kaczmarz_gauss_seidel *)

RECURSIVE kaczmarz_jacobi_loop(_, _, _, _, _, _, _, _, _)
kaczmarz_jacobi_loop(A, xv, bv, Dinv, row_start, row_stop, row_step, omega, iterations) ==
    IF iterations <= 0 \/ ~Exact(xv) THEN xv
    ELSE kaczmarz_jacobi_loop(A,
            amg_core_kaczmarz_jacobi(A.indptr, A.indices, A.data, xv, bv,
                                     VMul(VSub(bv, MatVec(A, xv)), Dinv),
                                     row_start, row_stop, row_step, omega),
            bv, Dinv, row_start, row_stop, row_step, omega, iterations - 1)

\* kaczmarz_jacobi on the system s that make_system left
kaczmarz_jacobi_on(s, mem, iterations, omega) ==
    IF s.err # "none" THEN Res(mem, s.err, s.warned)
    ELSE Res(Store(mem, s.x,
                   kaczmarz_jacobi_loop(s.A, Load(mem, s.x), Load(mem, s.b),
                                        get_diagonal_norm_eq_inv(s.A),
                                        0, s.A.shape[1], 1,
                                        type_prep(s.A.dtype, omega), iterations)),
             "none", s.warned)

kaczmarz_jacobi(A, x, b, mem, iterations, omega) ==
    kaczmarz_jacobi_on(make_system(A, x, b, mem, <<"csr">>), mem, iterations, omega)

RECURSIVE kaczmarz_richardson_loop(_, _, _, _, _, _, _, _)
kaczmarz_richardson_loop(A, xv, bv, row_start, row_stop, row_step, omega, iterations) ==
    IF iterations <= 0 \/ ~Exact(xv) THEN xv
    ELSE kaczmarz_richardson_loop(A,
            amg_core_kaczmarz_jacobi(A.indptr, A.indices, A.data, xv, bv,
                                     VSub(bv, MatVec(A, xv)),
                                     row_start, row_stop, row_step, omega),
            bv, row_start, row_stop, row_step, omega, iterations - 1)

\* kaczmarz_richardson on the system s that make_system left
kaczmarz_richardson_on(s, mem, iterations, omega) ==
    IF s.err # "none" THEN Res(mem, s.err, s.warned)
    ELSE Res(Store(mem, s.x,
                   kaczmarz_richardson_loop(s.A, Load(mem, s.x), Load(mem, s.b),
                                            0, s.A.shape[1], 1,
                                            type_prep(s.A.dtype, omega), iterations)),
             "none", s.warned)

kaczmarz_richardson(A, x, b, mem, iterations, omega) ==
    kaczmarz_richardson_on(make_system(A, x, b, mem, <<"csr">>), mem, iterations, omega)

RECURSIVE kgs_loop(_, _, _, _, _, _, _, _)
kgs_loop(A, xv, bv, row_start, row_stop, row_step, Dinv, iterations) ==
    IF iterations <= 0 \/ ~Exact(xv) THEN xv
    ELSE kgs_loop(A,
            amg_core_kaczmarz_gauss_seidel(A.indptr, A.indices, A.data, xv, bv,
                                           row_start, row_stop, row_step, Dinv),
            bv, row_start, row_stop, row_step, Dinv, iterations - 1)

kgs_sweeps(A, x, b, mem, row_start, row_stop, row_step, iterations, warned) ==
    Res(Store(mem, x, kgs_loop(A, Load(mem, x), Load(mem, b),
                               row_start, row_stop, row_step,
                               get_diagonal_norm_eq_inv(A), iterations)),
        "none", warned)

RECURSIVE kaczmarz_gauss_seidel(_, _, _, _, _, _)
RECURSIVE kgs_symmetric(_, _, _, _, _)

\* kaczmarz_gauss_seidel on the system s that make_system left
kgs_on(s, mem, iterations, sweep) ==
    IF s.err # "none" THEN Res(mem, s.err, s.warned)
    ELSE IF sweep = "forward"
    THEN kgs_sweeps(s.A, s.x, s.b, mem, 0, s.x.shape[1], 1, iterations, s.warned)
    ELSE IF sweep = "backward"
    THEN kgs_sweeps(s.A, s.x, s.b, mem, s.x.shape[1] - 1, -1, -1, iterations, s.warned)
    ELSE IF sweep = "symmetric"
    THEN kgs_symmetric(s.A, s.x, s.b, Res(mem, "none", s.warned), iterations)
    ELSE Res(mem, "ValueError", s.warned)

kaczmarz_gauss_seidel(A, x, b, mem, iterations, sweep) ==
    kgs_on(make_system(A, x, b, mem, <<"csr">>), mem, iterations, sweep)

kgs_backward(A, x, b, f) ==
    IF f.err # "none" THEN f ELSE kaczmarz_gauss_seidel(A, x, b, f.mem, 1, "backward")

kgs_pass(A, x, b, st, f) == AfterPair(st, f, kgs_backward(A, x, b, f))

kgs_symmetric(A, x, b, st, iterations) ==
    IF iterations <= 0 \/ st.err # "none" THEN st
    ELSE kgs_symmetric(A, x, b,
                       kgs_pass(A, x, b, st,
                                kaczmarz_gauss_seidel(A, x, b, st.mem, 1, "forward")),
                       iterations - 1)

----------------------------------------------------------------------------
(* The systems the caller holds. *)

Rats(ns) == [k \in 1..Len(ns) |-> Rat(ns[k])]

CSR(n, indptr, indices, ns) ==
    Mat("csr", <<n, n>>, <<1, 1>>, indptr, indices, Rats(ns), <<>>, "float64")

\* poisson((4,)): tridiag(-1, 2, -1) of order 4
Poisson4 ==
    CSR(4, <<0, 2, 5, 8, 10>>, <<0, 1, 0, 1, 2, 1, 2, 3, 2, 3>>,
        <<2, -1, -1, 2, -1, -1, 2, -1, -1, 2>>)

\* [[1, 1, 0], [0, 1, -1], [1, 0, 1]]: not symmetric
Cyclic3 == CSR(3, <<0, 2, 4, 6>>, <<0, 1, 1, 2, 0, 2>>, <<1, 1, 1, -1, 1, 1>>)

\* [[2, 1], [1, 2]]
Sym2 == CSR(2, <<0, 2, 4>>, <<0, 1, 0, 1>>, <<2, 1, 1, 2>>)

\* [[1, 0, 1], [1, ., 0], [0, 1, 2]]: row 1 stores no diagonal entry
Hole3 == CSR(3, <<0, 2, 3, 5>>, <<0, 2, 0, 1, 2>>, <<1, 1, 1, 1, 2>>)

\* Cyclic3 in block-CSR with 1 x 1 blocks
Cyclic3Bsr1 ==
    Mat("bsr", <<3, 3>>, <<1, 1>>, <<0, 2, 4, 6>>, <<0, 1, 1, 2, 0, 2>>,
        [k \in 1..6 |-> <<<<Rat(<<1, 1, 1, -1, 1, 1>>[k])>>>>], <<>>, "float64")

\* Poisson4 in block-CSR with 2 x 2 blocks
Poisson4Bsr2 ==
    Mat("bsr", <<4, 4>>, <<2, 2>>, <<0, 2, 4>>, <<0, 1, 0, 1>>,
        << <<Rats(<<2, -1>>), Rats(<<-1, 2>>)>>, <<Rats(<<0, 0>>), Rats(<<-1, 0>>)>>,
           <<Rats(<<0, -1>>), Rats(<<0, 0>>)>>, <<Rats(<<2, -1>>), Rats(<<-1, 2>>)>> >>,
        <<>>, "float64")

\* Sym2 in block-CSR with 2 x 1 blocks (not square)
Sym2Bsr21 ==
    Mat("bsr", <<2, 2>>, <<2, 1>>, <<0, 2>>, <<0, 1>>,
        << <<Rats(<<2>>), Rats(<<1>>)>>, <<Rats(<<1>>), Rats(<<2>>)>> >>,
        <<>>, "float64")

\* Cyclic3 in CSC
Cyclic3Csc ==
    Mat("csc", <<3, 3>>, <<1, 1>>, <<0, 2, 4, 6>>, <<0, 2, 0, 1, 1, 2>>,
        Rats(<<1, 1, 1, 1, -1, 1>>), <<>>, "float64")

\* Sym2 in COO, entries in no particular order
Sym2Coo ==
    Mat("coo", <<2, 2>>, <<1, 1>>, <<>>, <<1, 0, 0, 1>>, Rats(<<2, 1, 2, 1>>),
        <<1, 1, 0, 0>>, "float64")

\* a 2 x 3 operator: [[1, 0, 1], [0, 1, 0]]
Wide23 ==
    Mat("csr", <<2, 3>>, <<1, 1>>, <<0, 2, 3>>, <<0, 2, 1>>, Rats(<<1, 1, 1>>),
        <<>>, "float64")

\* a system: the operator, the two array objects and the contents of their buffers
Sys(A0, xs, x0, bs, b0) ==
    [A |-> A0,
     x |-> Arr(TRUE, xs, "float64", TRUE, "x", <<>>),
     b |-> Arr(TRUE, bs, "float64", TRUE, "b", <<>>),
     mem |-> [x |-> Rats(x0), b |-> Rats(b0)]]

\* the iterate a forward Gauss-Seidel call leaves on Hole3: row 1 has become
\* non-finite, and row 2, which reads it
Hole3Swept ==
    LET s == Sys(Hole3, <<3>>, <<1, 0, 1>>, <<3>>, <<1, 1, 2>>)
    IN  [s EXCEPT !.mem = gauss_seidel(s.A, s.x, s.b, s.mem, 1, "forward").mem]

\* systems that pass make_system
ValidSystems ==
    {Sys(Poisson4, <<4>>, <<0, 0, 0, 0>>, <<4>>, <<0, 1, 2, 3>>),
     Sys(Cyclic3, <<3>>, <<0, 0, 0>>, <<3>>, <<1, 2, 0>>),
     Sys(Cyclic3, <<3>>, <<1, -1, 2>>, <<3, 1>>, <<1, 2, 0>>),
     Sys(Sym2, <<2>>, <<0, 0>>, <<2>>, <<1, 3>>),
     Sys(Sym2, <<2, 1>>, <<1, 2>>, <<2>>, <<1, 3>>),
     Sys(Hole3, <<3>>, <<1, 0, 1>>, <<3>>, <<1, 1, 2>>),
     Hole3Swept,
     Sys(Cyclic3Bsr1, <<3>>, <<1, -1, 2>>, <<3>>, <<1, 2, 0>>),
     Sys(Poisson4Bsr2, <<4>>, <<1, 0, 0, 1>>, <<4>>, <<0, 1, 2, 3>>),
     Sys(Sym2Bsr21, <<2>>, <<1, 2>>, <<2>>, <<1, 3>>),
     Sys(Cyclic3Csc, <<3>>, <<1, -1, 2>>, <<3>>, <<1, 2, 0>>),
     Sys(Sym2Coo, <<2>>, <<1, 2>>, <<2>>, <<1, 3>>)}

\* a Python list passed where an array is expected: it is no ndarray and has
\* no shape, dtype or flags
PyList(base) == Arr(FALSE, <<>>, "object", FALSE, base, <<>>)

\* one argument of a valid system spoilt
Spoilt ==
    LET s == Sys(Sym2, <<2>>, <<1, 2>>, <<2>>, <<1, 3>>)
    IN  {[s EXCEPT !.A = Wide23],
         [s EXCEPT !.x.shape = <<1, 2>>],
         [s EXCEPT !.x.shape = <<3>>, !.mem.x = Rats(<<1, 2, 0>>)],
         [s EXCEPT !.b.shape = <<3>>, !.mem.b = Rats(<<1, 3, 0>>)],
         [s EXCEPT !.x.dtype = "float32"],
         [s EXCEPT !.b.dtype = "complex128"],
         [s EXCEPT !.A.dtype = "complex128"],
         [s EXCEPT !.x.carray = FALSE],
         [s EXCEPT !.b.carray = FALSE],
         [s EXCEPT !.x = PyList("x")],
         [s EXCEPT !.b = PyList("b")]}

Systems == ValidSystems \cup Spoilt

----------------------------------------------------------------------------
(* The caller: it holds one system and makes a call on it.  The functions  *)
(* keep no state between calls: what a call does is decided by its         *)
(* arguments and the contents of the buffers, so a behaviour follows one   *)
(* call from a state the caller may hold, an earlier call's result         *)
(* included (see Systems).                                                 *)

VARIABLES
    A,        \* the operator the caller passes
    x,        \* the array object of the iterate
    b,        \* the array object of the right-hand side
    mem,      \* the contents of the caller's buffers x and b
    call,     \* the last call made: the function and its arguments
    mem_in,   \* the contents of the buffers when the last call was made
    ret       \* how the last call ended: exception, warning, returned value

vars == <<A, x, b, mem, call, mem_in, ret>>

Sweeps == {"forward", "backward", "symmetric", "diagonal"}

Omegas == {One, Q(1, 2)}

Coeffients == {<<>>, <<One>>, <<Rat(2), One>>, <<One, Zero, Rat(-1)>>}

\* index sequences for a system of order n: all rows in order, and a sequence
\* with a repeated row that leaves rows out
IndexSeqs(n) == {Iota(n), <<n - 1, 0, n - 1>>}

FormatLists == {None, <<"csr">>, <<"csr", "bsr">>, <<"csc">>}

Iterations == 0..MaxIter

Call(fn, iterations, sweep, omega, coeffients, indices, formats) ==
    [fn |-> fn, iterations |-> iterations, sweep |-> sweep, omega |-> omega,
     coeffients |-> coeffients, indices |-> indices, formats |-> formats]

NoCall == Call("none", 0, "", Zero, <<>>, <<>>, None)

Init ==
    \E s \in Systems :
        /\ A = s.A
        /\ x = s.x
        /\ b = s.b
        /\ mem = s.mem
        /\ call = NoCall
        /\ mem_in = s.mem
        /\ ret = [err |-> "none", warned |-> FALSE, out |-> <<>>]

\* a call of a kernel that ended as res; the exploration follows it when the
\* arithmetic stayed within MaxMag
Kernel(c, res) ==
    /\ call = NoCall
    /\ Exact(res.mem.x)
    /\ mem' = res.mem
    /\ mem_in' = mem
    /\ call' = c
    /\ ret' = [err |-> res.err, warned |-> res.warned, out |-> <<>>]
    /\ UNCHANGED <<A, x, b>>

\* what the caller gets from make_system, s being what it left
Returns(s) ==
    [err |-> s.err, warned |-> s.warned,
     out |-> IF s.err = "none" THEN <<s.A, s.x, s.b>> ELSE <<>>]

MakeSystem ==
    \E f \in FormatLists :
        /\ call = NoCall
        /\ mem_in' = mem
        /\ call' = Call("make_system", 0, "", Zero, <<>>, <<>>, f)
        /\ ret' = Returns(make_system(A, x, b, mem, f))
        /\ UNCHANGED <<A, x, b, mem>>

Sor ==
    \E k \in Iterations, d \in Sweeps, w \in Omegas :
        Kernel(Call("sor", k, d, w, <<>>, <<>>, None), sor(A, x, b, mem, w, k, d))

GaussSeidel ==
    \E k \in Iterations, d \in Sweeps :
        Kernel(Call("gauss_seidel", k, d, Zero, <<>>, <<>>, None),
               gauss_seidel(A, x, b, mem, k, d))

Jacobi ==
    \E k \in Iterations, w \in Omegas :
        Kernel(Call("jacobi", k, "", w, <<>>, <<>>, None), jacobi(A, x, b, mem, k, w))

Polynomial ==
    \E k \in Iterations, cs \in Coeffients :
        Kernel(Call("polynomial", k, "", Zero, cs, <<>>, None),
               polynomial(A, x, b, mem, cs, k))

GaussSeidelIndexed ==
    \E k \in Iterations, d \in Sweeps, ix \in IndexSeqs(A.shape[1]) :
        Kernel(Call("gauss_seidel_indexed", k, d, Zero, <<>>, ix, None),
               gauss_seidel_indexed(A, x, b, mem, ix, k, d))

KaczmarzJacobi ==
    \E k \in Iterations, w \in Omegas :
        Kernel(Call("kaczmarz_jacobi", k, "", w, <<>>, <<>>, None),
               kaczmarz_jacobi(A, x, b, mem, k, w))

KaczmarzRichardson ==
    \E k \in Iterations, w \in Omegas :
        Kernel(Call("kaczmarz_richardson", k, "", w, <<>>, <<>>, None),
               kaczmarz_richardson(A, x, b, mem, k, w))

KaczmarzGaussSeidel ==
    \E k \in Iterations, d \in Sweeps :
        Kernel(Call("kaczmarz_gauss_seidel", k, d, Zero, <<>>, <<>>, None),
               kaczmarz_gauss_seidel(A, x, b, mem, k, d))

Next ==
    \/ MakeSystem
    \/ Sor
    \/ GaussSeidel
    \/ Jacobi
    \/ Polynomial
    \/ GaussSeidelIndexed
    \/ KaczmarzJacobi
    \/ KaczmarzRichardson
    \/ KaczmarzGaussSeidel

Spec == Init /\ [][Next]_vars

----------------------------------------------------------------------------
(* Properties. *)

ValidSweeps == {"forward", "backward", "symmetric"}

\* the functions that relax x
Kernels ==
    {"sor", "gauss_seidel", "jacobi", "polynomial", "gauss_seidel_indexed",
     "kaczmarz_jacobi", "kaczmarz_richardson", "kaczmarz_gauss_seidel"}

\* the last call returned without raising
Returned == call # NoCall /\ ret.err = "none"

AllFinite(v) == \A i \in 1..Len(v) : IsNum(v[i])

\* the caller's system is one make_system accepts
WellFormed ==
    /\ x.isarray /\ b.isarray
    /\ A.shape[1] = A.shape[2]
    /\ x.shape \in {<<A.shape[1]>>, <<A.shape[1], 1>>}
    /\ b.shape \in {<<A.shape[1]>>, <<A.shape[1], 1>>}
    /\ A.dtype = x.dtype /\ A.dtype = b.dtype
    /\ x.carray

\* one call, with iterations=1, of a function that sweeps in direction d, made by
\* the caller on its own A, x and b when the buffers hold m
SweepCall(fn, m, ix, d) ==
    CASE fn = "gauss_seidel" -> gauss_seidel(A, x, b, m, 1, d)
      [] fn = "gauss_seidel_indexed" -> gauss_seidel_indexed(A, x, b, m, ix, 1, d)
      [] fn = "kaczmarz_gauss_seidel" -> kaczmarz_gauss_seidel(A, x, b, m, 1, d)

\* k calls in direction d, one after the other
RECURSIVE ManualRepeat(_, _, _, _, _)
ManualRepeat(fn, m, ix, d, k) ==
    IF k <= 0 \/ ~Exact(m.x) THEN m
    ELSE ManualRepeat(fn, SweepCall(fn, m, ix, d).mem, ix, d, k - 1)

\* k times: a forward call, then a backward call
RECURSIVE ManualForwardBackward(_, _, _, _)
ManualForwardBackward(fn, m, ix, k) ==
    IF k <= 0 \/ ~Exact(m.x) THEN m
    ELSE ManualForwardBackward(fn,
            ManualRepeat(fn, ManualRepeat(fn, m, ix, "forward", 1), ix, "backward", 1),
            ix, k - 1)

\* C1: a symmetric call with iterations=k of gauss_seidel, gauss_seidel_indexed or
\* kaczmarz_gauss_seidel leaves x as k manual repetitions of (a forward call with
\* iterations=1, then a backward call with iterations=1) from the same start do.
C1_SymmetricIsForwardBackward ==
    (/\ call.fn \in {"gauss_seidel", "gauss_seidel_indexed", "kaczmarz_gauss_seidel"}
     /\ call.sweep = "symmetric"
     /\ Returned)
    => mem = ManualForwardBackward(call.fn, mem_in, call.indices, call.iterations)

\* a symmetric gauss_seidel call with two or more iterations has returned a finite
\* x that k forward calls followed by k backward calls would not have produced
C1_Witness ==
    /\ call.fn = "gauss_seidel" /\ call.sweep = "symmetric" /\ call.iterations >= 2
    /\ Returned /\ AllFinite(mem.x)
    /\ mem.x # ManualRepeat(call.fn,
                            ManualRepeat(call.fn, mem_in, call.indices, "forward",
                                         call.iterations),
                            call.indices, "backward", call.iterations).x

\* C2: sor with omega = 1 leaves x as gauss_seidel with the same iterations and the
\* same sweep (forward, backward or symmetric) does from the same start.
C2_SorOmegaOneIsGaussSeidel ==
    (/\ call.fn = "sor" /\ call.omega = One /\ call.sweep \in ValidSweeps
     /\ Returned)
    => mem.x = gauss_seidel(A, x, b, mem_in, call.iterations, call.sweep).mem.x

\* sor with omega = 1 has made two or more symmetric iterations and moved x
C2_Witness ==
    /\ call.fn = "sor" /\ call.omega = One /\ call.sweep = "symmetric"
    /\ call.iterations >= 2 /\ Returned
    /\ AllFinite(mem.x) /\ mem.x # mem_in.x

\* the arguments of the last call are valid: a well-formed system, a known sweep
\* direction where one is taken, square blocks where blocks are used
ValidArguments ==
    /\ WellFormed
    /\ call.fn \in {"sor", "gauss_seidel", "gauss_seidel_indexed",
                    "kaczmarz_gauss_seidel"} => call.sweep \in ValidSweeps
    /\ (call.fn \in {"sor", "gauss_seidel"} /\ A.format = "bsr")
           => A.blocksize[1] = A.blocksize[2]

\* C3: every kernel called with iterations = 0 on valid arguments returns with x
\* unchanged in every component.
C3_ZeroIterationsNoOp ==
    (call.fn \in Kernels /\ call.iterations = 0 /\ ValidArguments)
    => (ret.err = "none" /\ mem = mem_in)

\* a gauss_seidel call with iterations = 0 has returned on a system that a call with
\* iterations = 1 changes
C3_Witness ==
    /\ call.fn = "gauss_seidel" /\ call.iterations = 0 /\ ValidArguments /\ Returned
    /\ gauss_seidel(A, x, b, mem_in, 1, call.sweep).mem.x # mem_in.x

----------------------------------------------------------------------------
(* The closed forms the smoothers are held against, over the stored        *)
(* entries of the operator the caller passed.                              *)

\* the operator the caller passed, as the set of its stored entries
Stored == Triples(A)

\* the stored entries of row i, by increasing column
StoredRow(i) == RowOf(Stored, i, 0, A.shape[2])

\* sum of A_ij * v_j over the stored entries of row i with j # i
OffDiagonal(v, i) ==
    LET E == StoredRow(i)
    IN  SumSeq([k \in 1..Len(E) |->
                  IF E[k][2] = i THEN Zero ELSE Mul(E[k][3], v[E[k][2] + 1])], 1, Zero)

\* A_ii, zero when row i stores no diagonal entry
Diagonal(i) ==
    LET E == StoredRow(i)
    IN  SumSeq([k \in 1..Len(E) |-> IF E[k][2] = i THEN E[k][3] ELSE Zero], 1, Zero)

\* rows visited in order one at a time, each set to (b_i - sum_{j # i} A_ij v_j) / A_ii
\* with v as the rows before it left it
RECURSIVE SequentialSweep(_, _, _)
SequentialSweep(v, bv, order) ==
    IF order = <<>> \/ ~Exact(v) THEN v
    ELSE LET i == Head(order)
         IN  SequentialSweep([v EXCEPT ![i + 1] =
                                  Div(Sub(bv[i + 1], OffDiagonal(v, i)), Diagonal(i))],
                             bv, Tail(order))

RECURSIVE SequentialSweeps(_, _, _, _)
SequentialSweeps(v, bv, order, k) ==
    IF k <= 0 \/ ~Exact(v) THEN v
    ELSE SequentialSweeps(SequentialSweep(v, bv, order), bv, order, k - 1)

\* the order in which a sweep in direction d visits n rows
SweepOrder(n, d) == IF d = "forward" THEN Iota(n) ELSE Reverse(Iota(n))

\* C4: a forward or backward point Gauss-Seidel sweep visits the rows one at a time
\* in the sweep order and sets row i to (b_i - sum_{j # i} A_ij x_j) / A_ii, reading
\* the value written in this sweep for every row visited earlier and the pre-sweep
\* value otherwise; on tridiag(-1, 2, -1) of order 4 with b = [0, 1, 2, 3] and x = 0
\* one forward sweep gives [0, 1/2, 5/4, 17/8].
C4_SequentialUpdate ==
    (/\ call.fn = "gauss_seidel" /\ call.sweep \in {"forward", "backward"}
     /\ A.format # "bsr" /\ Returned)
    => /\ mem.x = SequentialSweeps(mem_in.x, mem_in.b,
                                   SweepOrder(A.shape[1], call.sweep), call.iterations)
       /\ (/\ A = Poisson4 /\ mem_in.x = Zeros(4) /\ mem_in.b = Rats(<<0, 1, 2, 3>>)
           /\ call.sweep = "forward" /\ call.iterations = 1)
          => mem.x = <<Zero, Q(1, 2), Q(5, 4), Q(17, 8)>>

\* one forward sweep has been made on the Poisson example from zero and has left
\* [0, 1/2, 5/4, 17/8]: rows 2 and 3 have read the rows written before them
C4_Witness ==
    /\ call.fn = "gauss_seidel" /\ call.sweep = "forward" /\ call.iterations = 1
    /\ A = Poisson4 /\ mem_in.x = Zeros(4) /\ mem_in.b = Rats(<<0, 1, 2, 3>>)
    /\ Returned
    /\ mem.x = <<Zero, Q(1, 2), Q(5, 4), Q(17, 8)>>

\* C5: gauss_seidel_indexed with indices [0, 1, ..., n-1] and sweep forward leaves x
\* as gauss_seidel with sweep forward and the same iterations does on the same
\* inputs, for every valid CSR system and every iteration count.
C5_IndexedAllRowsIsForward ==
    (/\ call.fn = "gauss_seidel_indexed" /\ call.indices = Iota(A.shape[1])
     /\ call.sweep = "forward" /\ A.format = "csr" /\ Returned)
    => LET g == gauss_seidel(A, x, b, mem_in, call.iterations, "forward")
       IN  g.err = "none" /\ mem = g.mem

\* an indexed forward call over all the rows has made two or more iterations on a
\* CSR system and moved x
C5_Witness ==
    /\ call.fn = "gauss_seidel_indexed" /\ call.indices = Iota(A.shape[1])
    /\ call.sweep = "forward" /\ A.format = "csr" /\ call.iterations >= 2
    /\ Returned /\ AllFinite(mem.x) /\ mem.x # mem_in.x

\* the reciprocal of A's diagonal
Dinv == Array([i \in 1..A.shape[1] |-> Div(One, Diagonal(i - 1))])

\* v + omega * Dinv * (b - A v), every row from the same v
JacobiStep(v, bv, omega) ==
    VAdd(v, VScale(omega, VMul(Dinv, VSub(bv, MatVec(A, v)))))

RECURSIVE JacobiSteps(_, _, _, _)
JacobiSteps(v, bv, omega, k) ==
    IF k <= 0 \/ ~Exact(v) THEN v
    ELSE JacobiSteps(JacobiStep(v, bv, omega), bv, omega, k - 1)

\* C6: each iteration of jacobi sets x to x_old + omega * Dinv * (b - A x_old), Dinv
\* being the reciprocal of A's diagonal and every row reading the pre-iteration
\* x_old only; with omega = 1 and one iteration x is x_old + Dinv (b - A x_old).
C6_JacobiSnapshot ==
    (/\ call.fn = "jacobi" /\ Returned
     /\ Exact(JacobiSteps(mem_in.x, mem_in.b, call.omega, call.iterations)))
    => /\ mem.x = JacobiSteps(mem_in.x, mem_in.b, call.omega, call.iterations)
       /\ (call.omega = One /\ call.iterations = 1)
          => mem.x = VAdd(mem_in.x, VMul(Dinv, VSub(mem_in.b, MatVec(A, mem_in.x))))

\* jacobi has made one iteration with omega = 1 and left a finite x that one
\* forward Gauss-Seidel sweep, whose rows read each other, would not have left
C6_Witness ==
    /\ call.fn = "jacobi" /\ call.omega = One /\ call.iterations = 1
    /\ Returned /\ AllFinite(mem.x) /\ mem.x # mem_in.x
    /\ mem.x # SequentialSweep(mem_in.x, mem_in.b, Iota(A.shape[1]))

\* A^p v
RECURSIVE MatPowVec(_, _)
MatPowVec(p, v) == IF p <= 0 THEN v ELSE MatVec(A, MatPowVec(p - 1, v))

\* (c_0 A^(m-1) + ... + c_(m-1)) r for the coefficients cs = [c_0, ..., c_(m-1)],
\* term by term from c_(i-1) on
RECURSIVE PolyApply(_, _, _)
PolyApply(cs, r, i) ==
    IF i > Len(cs) THEN Zeros(Len(r))
    ELSE VAdd(VScale(cs[i], MatPowVec(Len(cs) - i, r)), PolyApply(cs, r, i + 1))

\* v + p(A) (b - A v), the residual always by the matrix-vector product
PolyStep(v, bv, cs) == VAdd(v, PolyApply(cs, VSub(bv, MatVec(A, v)), 1))

RECURSIVE PolySteps(_, _, _, _)
PolySteps(v, bv, cs, k) ==
    IF k <= 0 \/ ~Exact(v) THEN v
    ELSE PolySteps(PolyStep(v, bv, cs), bv, cs, k - 1)

\* C7: an iteration of polynomial with coefficients [c_0, ..., c_(m-1)], m >= 1, sets
\* x to x + (c_0 A^(m-1) + ... + c_(m-1)) (b - A x) for every starting x, the
\* exactly-zero x whose residual is taken as b included; with coefficients [1] it
\* sets x to x + (b - A x); each iteration takes the residual of the current x.
C7_PolynomialLaw ==
    (/\ call.fn = "polynomial" /\ call.coeffients # <<>> /\ Returned
     /\ Exact(PolySteps(mem_in.x, mem_in.b, call.coeffients, call.iterations)))
    => /\ mem.x = PolySteps(mem_in.x, mem_in.b, call.coeffients, call.iterations)
       /\ (call.coeffients = <<One>> /\ call.iterations = 1)
          => mem.x = VAdd(mem_in.x, VSub(mem_in.b, MatVec(A, mem_in.x)))

\* polynomial has made two or more iterations with three coefficients from the
\* exactly-zero x, the first taking b as the residual, and left a finite x
C7_Witness ==
    /\ call.fn = "polynomial" /\ Len(call.coeffients) = 3 /\ call.iterations >= 2
    /\ IsZeroVec(mem_in.x) /\ Returned
    /\ AllFinite(mem.x) /\ mem.x # mem_in.x

\* the cases in which make_system is to fail: A not square, x or b of a shape other
\* than (n,) or (n,1), element types not all equal, x not contiguous
Malformed ==
    LET n == A.shape[1]
    IN  \/ A.shape[1] # A.shape[2]
        \/ x.shape \notin {<<n>>, <<n, 1>>}
        \/ b.shape \notin {<<n>>, <<n, 1>>}
        \/ A.dtype # x.dtype \/ A.dtype # b.dtype
        \/ ~x.carray

\* C8: make_system, called directly or by a kernel, fails before any kernel runs and
\* with x unchanged when A is not square, x or b has a shape other than (n,) or
\* (n,1), the element types of A, x and b are not all equal, or x is not contiguous;
\* otherwise it returns flat x and b of length n, the x sharing the caller's
\* storage so that a write through it is seen by the caller.
C8_MakeSystemChecks ==
    (call # NoCall)
    => /\ Malformed => (ret.err \in {"ValueError", "TypeError"} /\ mem = mem_in)
       /\ (~Malformed /\ call.fn = "make_system")
          => /\ ret.err = "none"
             /\ ret.out[2].shape = <<A.shape[1]>>
             /\ ret.out[3].shape = <<A.shape[1]>>
             /\ Len(Load(mem, ret.out[2])) = A.shape[1]
             /\ Len(Load(mem, ret.out[3])) = A.shape[1]
             /\ Load(mem, ret.out[2]) = mem.x
             /\ Load(mem, ret.out[3]) = mem.b
             /\ ret.out[2].base = "x"
             /\ \A v \in {Zeros(A.shape[1])} : Store(mem, ret.out[2], v).x = v

\* a kernel asked for one or more iterations on an x that is not contiguous has
\* failed and left x as it was, although the kernel would have changed it
C8_Witness ==
    /\ call.fn = "gauss_seidel" /\ call.iterations >= 1 /\ call.sweep = "forward"
    /\ ~x.carray /\ x.isarray
    /\ ret.err = "ValueError" /\ mem = mem_in
    /\ gauss_seidel(A, [x EXCEPT !.carray = TRUE], b, mem_in, 1, "forward").mem.x
           # mem_in.x

\* the format lists the kernels pass to make_system
KernelFormatLists == {<<"csr">>, <<"csr", "bsr">>}

\* make_system was called with the list f of acceptable formats and returned
MadeSystem(f) == call.fn = "make_system" /\ call.formats = f /\ ret.err = "none"

\* what make_system does to A under the list f: A itself when its format is in the
\* list, otherwise the same entries in the first listed format
FormatStep(f) ==
    IF \E k \in 1..Len(f) : f[k] = A.format
    THEN ret.out[1] = A
    ELSE /\ ret.out[1].format = f[1]
         /\ ret.out[1].shape = A.shape
         /\ Triples(ret.out[1]) = Triples(A)

\* C9 as stated: under a list of acceptable formats make_system returns A unchanged
\* when A's format is in the list, and otherwise converts A to the first listed
\* format and signals a performance warning, never an error, for either list the
\* kernels pass and every input format.
C9_EveryConversionWarns ==
    \A f \in KernelFormatLists :
        (call.fn = "make_system" /\ call.formats = f)
        => /\ ~Malformed => ret.err = "none"
           /\ MadeSystem(f) => FormatStep(f)
           /\ ret.warned <=> ~(\E k \in 1..Len(f) : f[k] = A.format)

\* C9 amended: make_system returns A unchanged when A's format is in the list and
\* otherwise the same entries in the first listed format, never an error; it
\* signals the performance warning only when the list is ['csr'] and A is neither
\* CSR nor BSR: BSR is converted to CSR silently, and so is every conversion under
\* ['csr', 'bsr'].
C9_WarningOnlyForCsrList ==
    \A f \in KernelFormatLists :
        (call.fn = "make_system" /\ call.formats = f)
        => /\ ~Malformed => ret.err = "none"
           /\ MadeSystem(f) => FormatStep(f)
           /\ ret.warned <=> (f = <<"csr">> /\ A.format \notin {"csr", "bsr"})

\* make_system has converted a CSC operator to CSR under ['csr'] and warned
C9_Witness ==
    /\ MadeSystem(<<"csr">>) /\ A.format = "csc"
    /\ ret.out[1].format = "csr" /\ ret.out[1] # A /\ ret.warned

\* C10 as stated: gauss_seidel, sor, gauss_seidel_indexed and kaczmarz_gauss_seidel
\* fail with an invalid-argument error when the sweep direction is not forward,
\* backward or symmetric, for every iteration count, 0 included, and before x is
\* modified.
C10_InvalidSweepFailsEagerly ==
    (/\ call.fn \in {"gauss_seidel", "sor", "gauss_seidel_indexed",
                     "kaczmarz_gauss_seidel"}
     /\ call.sweep \notin ValidSweeps
     /\ WellFormed)
    => (ret.err = "ValueError" /\ mem = mem_in)

\* the caller's operator is block-CSR with blocks that are not square
NonSquareBlocks == A.format = "bsr" /\ A.blocksize[1] # A.blocksize[2]

\* C11 as stated: gauss_seidel and sor on a block-CSR operator with R # C fail with
\* an invalid-argument error for every sweep direction (forward, backward,
\* symmetric) and every iteration count, 0 included, and x is unchanged.
C11_NonSquareBlocksFail ==
    (/\ call.fn \in {"gauss_seidel", "sor"}
     /\ call.sweep \in ValidSweeps
     /\ WellFormed /\ NonSquareBlocks)
    => (ret.err = "ValueError" /\ mem = mem_in)

\* the bounds <<row_start, row_stop, row_step>> gauss_seidel takes for a forward or
\* backward sweep over n unknowns
SweepBounds(n, d) == IF d = "forward" THEN <<0, n, 1>> ELSE <<n - 1, -1, -1>>

\* the bounds it hands to the block kernel for blocks of size R: row_start / R and
\* row_stop / R, the division of two Python 2 integers, which rounds down
BlockBounds(n, d, R) ==
    <<SweepBounds(n, d)[1] \div R, SweepBounds(n, d)[2] \div R, SweepBounds(n, d)[3]>>

\* the rows the point kernel visits, in order
PointRows(n, d) ==
    RowRange(SweepBounds(n, d)[1], SweepBounds(n, d)[2], SweepBounds(n, d)[3])

\* the block rows the block kernel visits, in order
BlockRows(n, d, R) ==
    RowRange(BlockBounds(n, d, R)[1], BlockBounds(n, d, R)[2], BlockBounds(n, d, R)[3])

\* the last call was gauss_seidel on a block-CSR operator with R x R blocks
BlockCall(R) ==
    /\ call.fn = "gauss_seidel" /\ call.sweep \in ValidSweeps
    /\ A.format = "bsr" /\ A.blocksize = <<R, R>>

\* C12: gauss_seidel on a block-CSR operator with 1 x 1 blocks visits the same rows
\* in the same order as on the CSR operator with the same entries, and leaves x as
\* point Gauss-Seidel on that CSR operator does, for forward, backward and symmetric
\* sweeps and every iteration count.
C12_BlockSizeOneIsPoint ==
    (BlockCall(1) /\ Returned)
    => /\ Triples(tocsr(A)) = Triples(A)
       /\ \A d \in {"forward", "backward"} :
              BlockRows(A.shape[1], d, 1) = PointRows(A.shape[1], d)
       /\ mem.x = gauss_seidel(tocsr(A), x, b, mem_in, call.iterations,
                               call.sweep).mem.x

\* a symmetric gauss_seidel call with two or more iterations on an operator in
\* 1 x 1 blocks has returned and moved x
C12_Witness ==
    /\ BlockCall(1) /\ call.sweep = "symmetric" /\ call.iterations >= 2
    /\ Returned /\ AllFinite(mem.x) /\ mem.x # mem_in.x

\* C13: no call changes anything but the iterate: whatever the call and however it
\* ends, the operator A the caller passed and the contents of its right-hand side b
\* are after the call what they were before it; polynomial, whose residual for an
\* exactly-zero x is b itself, and sor, which scales its saved copy of x in place,
\* included.
C13_OnlyIterateChanges == [][A' = A /\ b' = b /\ mem'.b = mem.b]_vars

\* polynomial has been called on an exactly-zero x, has taken b as the residual of
\* its first iteration and has moved x
C13_Witness ==
    /\ call.fn = "polynomial" /\ call.iterations >= 1 /\ Len(call.coeffients) >= 2
    /\ IsZeroVec(mem_in.x) /\ Returned /\ mem.x # mem_in.x

\* the order in which a sweep in direction d relaxes the rows of the index sequence s
IndexedOrder(s, d) == IF d = "forward" THEN s ELSE Reverse(s)

\* k forward sweeps over s, each followed by a backward sweep over s
RECURSIVE IndexedSymmetric(_, _, _, _)
IndexedSymmetric(v, bv, s, k) ==
    IF k <= 0 \/ ~Exact(v) THEN v
    ELSE IndexedSymmetric(
             SequentialSweeps(SequentialSweeps(v, bv, IndexedOrder(s, "forward"), 1),
                              bv, IndexedOrder(s, "backward"), 1),
             bv, s, k - 1)

\* the iterate after k sweeps in direction d over the index sequence s
IndexedSweeps(v, bv, s, d, k) ==
    IF d = "symmetric" THEN IndexedSymmetric(v, bv, s, k)
    ELSE SequentialSweeps(v, bv, IndexedOrder(s, d), k)

\* row i does not occur in the index sequence s
Absent(s, i) == \A q \in 1..Len(s) : s[q] # i

\* C14: gauss_seidel_indexed with the index sequence s relaxes, one row at a time,
\* s[0], ..., s[m-1] in a forward sweep, s[m-1], ..., s[0] in a backward sweep, and s
\* forward then s reversed in a symmetric sweep; a row that occurs p times in s is
\* relaxed p times per directional sweep, and a row absent from s keeps its value.
C14_IndexedOrder ==
    (/\ call.fn = "gauss_seidel_indexed" /\ call.sweep \in ValidSweeps /\ Returned)
    => /\ mem.x = IndexedSweeps(mem_in.x, mem_in.b, call.indices, call.sweep,
                                call.iterations)
       /\ \A i \in 0..(A.shape[1] - 1) :
              Absent(call.indices, i) => mem.x[i + 1] = mem_in.x[i + 1]

\* a symmetric call over an index sequence that repeats a row and leaves a row out
\* has returned: the row left out has kept its value, and x is not what a backward
\* half over all the rows n-1, ..., 0 would have left
C14_Witness ==
    /\ call.fn = "gauss_seidel_indexed" /\ call.sweep = "symmetric"
    /\ call.iterations >= 1 /\ Returned /\ AllFinite(mem.x)
    /\ call.indices = <<A.shape[1] - 1, 0, A.shape[1] - 1>>
    /\ Absent(call.indices, 1)
    /\ mem.x # mem_in.x
    /\ mem.x # SequentialSweeps(
                   SequentialSweeps(mem_in.x, mem_in.b, call.indices, 1),
                   mem_in.b, Reverse(Iota(A.shape[1])), 1)

\* one full point Gauss-Seidel sweep from v in direction d; the symmetric sweep is
\* a forward sweep followed by a backward sweep
FullSweep(v, bv, d) ==
    IF d = "symmetric"
    THEN SequentialSweeps(SequentialSweeps(v, bv, SweepOrder(A.shape[1], "forward"), 1),
                          bv, SweepOrder(A.shape[1], "backward"), 1)
    ELSE SequentialSweeps(v, bv, SweepOrder(A.shape[1], d), 1)

\* omega * x_GS + (1 - omega) * x_old
Blend(omega, x_GS, x_old) == VAdd(VScale(omega, x_GS), VScale(Sub(One, omega), x_old))

\* k iterations, each blending one full sweep from x_old with x_old
RECURSIVE SorSteps(_, _, _, _, _)
SorSteps(x_old, bv, omega, d, k) ==
    IF k <= 0 \/ ~Exact(x_old) THEN x_old
    ELSE SorSteps(Blend(omega, FullSweep(x_old, bv, d), x_old), bv, omega, d, k - 1)

\* C15: each iteration of sor makes exactly one full Gauss-Seidel sweep in the
\* requested direction (forward, backward or symmetric) from the iteration's
\* starting iterate x_old and sets x to omega * x_GS + (1 - omega) * x_old, x_GS
\* being the result of that sweep.
C15_SorIteration ==
    (/\ call.fn = "sor" /\ call.sweep \in ValidSweeps /\ A.format # "bsr" /\ Returned)
    => mem.x = SorSteps(mem_in.x, mem_in.b, call.omega, call.sweep, call.iterations)

\* sor with omega = 1/2 has made two or more iterations and left a finite x that
\* the unblended sweeps (omega = 1) would not have left
C15_Witness ==
    /\ call.fn = "sor" /\ call.omega = Q(1, 2) /\ call.sweep \in ValidSweeps
    /\ call.iterations >= 2 /\ A.format # "bsr" /\ Returned /\ AllFinite(mem.x)
    /\ mem.x # SorSteps(mem_in.x, mem_in.b, One, call.sweep, call.iterations)

\* block rows relaxed one at a time in the given order, k times over
RECURSIVE BlockSweeps(_, _, _, _, _)
BlockSweeps(v, bv, order, R, k) ==
    IF k <= 0 \/ ~Exact(v) THEN v
    ELSE BlockSweeps(RelaxBlockRows(A.indptr, A.indices, ravel_blocks(A.data), v, bv,
                                    order, R),
                     bv, order, R, k - 1)

\* C16: for a block-CSR operator of order n with R x R blocks, R dividing n, the
\* bounds gauss_seidel hands to the block kernel are in block units and cover every
\* block row exactly once per sweep: forward they give block rows 0, 1, ..., n/R - 1
\* and backward n/R - 1, ..., 1, 0, and x is left as the block relaxations in that
\* order leave it.
C16_BlockBoundsCoverEveryBlockRow ==
    (/\ BlockCall(A.blocksize[1]) /\ call.sweep \in {"forward", "backward"}
     /\ A.shape[1] % A.blocksize[1] = 0 /\ Returned)
    => /\ BlockRows(A.shape[1], "forward", A.blocksize[1])
              = Iota(A.shape[1] \div A.blocksize[1])
       /\ BlockRows(A.shape[1], "backward", A.blocksize[1])
              = Reverse(Iota(A.shape[1] \div A.blocksize[1]))
       /\ mem.x = BlockSweeps(mem_in.x, mem_in.b,
                              SweepOrder(A.shape[1] \div A.blocksize[1], call.sweep),
                              A.blocksize[1], call.iterations)

\* a backward gauss_seidel call on the operator of order 4 in 2 x 2 blocks has
\* returned after one or more sweeps over the block rows 1, 0 and has moved x
C16_Witness ==
    /\ BlockCall(2) /\ call.sweep = "backward" /\ call.iterations >= 1
    /\ A.shape[1] = 4 /\ Returned /\ AllFinite(mem.x) /\ mem.x # mem_in.x
    /\ BlockRows(4, "backward", 2) = <<1, 0>>

====
